---- MODULE Spec2Model ----
(***************************************************************************)
(* A model of the measurement execution and polling engine of             *)
(* globalping-vscode: src/src/services/globalpingClient.ts                 *)
(* (GlobalpingClient) and the RateLimitHandler of                          *)
(* src/src/services/testConfigBuilder.ts.                                  *)
(*                                                                         *)
(* Scheduling follows the JavaScript event loop.  Every async function is  *)
(* a task (an element of Procs) that runs from one await to the next       *)
(* without interruption.  When a promise settles, the continuations that   *)
(* await it are appended, in the order they started to await, to the       *)
(* microtask queue mq, and the queue is served first-in first-out.  The    *)
(* promises of the external collaborators (the config provider's           *)
(* getAuthToken, the transport's calls) settle at any moment; timers       *)
(* (setTimeout) fire only when the microtask queue is empty.               *)
(***************************************************************************)
EXTENDS Naturals, Integers, Sequences, FiniteSets, TLC

\* Number of concurrent callers of the client's public methods.
NumProcs == 3
\* Number of initializeClient runs a behaviour may start (the constructor's included).
MaxInits == 4
\* Number of createMeasurement, getMeasurement and getProbes calls of a behaviour.
MaxRequests == 1
\* Number of reinitialize calls of a behaviour.
MaxReinits == 1

Procs == 1..NumProcs
InitIds == 1..MaxInits

VARIABLES
    client,                 \* this.client: "absent" (undefined) or the shape of the handle
    initializationPromise,  \* this.initializationPromise: 0 (null) or the id of an initializeClient run
    initTask,               \* the initializeClient runs: their promise's status and error
    waiters,                \* per initializeClient run: the tasks awaiting its promise, in order
    mq,                     \* the microtask queue: tasks whose awaited promise has settled
    op,                     \* per task: the public method it runs
    pc,                     \* per task: where it is suspended
    awaiting,               \* per task: the initializeClient run whose promise it awaits (0: none)
    own,                    \* per task: the run ensureInitialized started itself at line 141 (0: none)
    res,                    \* per task: what the method returned or threw
    used,                   \* history: the initializeClient runs the call awaited
    first,                  \* history: the first run the call awaited (0: none)
    afterFail,              \* history: the call began after some ensureInitialized call had failed
    handleAtReturn,         \* history: this.client when the call settled
    isRateLimited,          \* RateLimitHandler.isRateLimited
    attempt,                \* per task: executeWithRetry's loop variable
    settled,                \* per task: what the transport call in flight settled with
    lastError,              \* per task: executeWithRetry's lastError
    ewr,                    \* history: what executeWithRetry returned or threw
    outcomes,               \* history: what each invocation of the operation ended with
    delays,                 \* history: the waits executeWithRetry made, in milliseconds
    hasOnProgress,          \* pollMeasurement: options?.onProgress is given
    primary,                \* what the promise of client.awaitMeasurement(id) settled with
    aborted,                \* abortController.signal.aborted
    awaitCalls,             \* history: the calls of client.awaitMeasurement
    iterations,             \* the getMeasurement calls the progress loop has made
    callbacks,              \* history: the invocations of progressCallback
    loopExit,               \* history: how the progress loop ended ("": it has not)
    fetchesAfter,           \* history: snapshot fetches issued after the primary wait returned
    nextResetTime,          \* RateLimitHandler.nextResetTime, in milliseconds (NoTime: null)
    now,                    \* the clock (new Date()), in milliseconds
    lastObs,                \* history: the last handleResponse call (its response, and the clock)
    thrown,                 \* history: the RateLimitError that call threw (NoThrow: it returned)
    answer,                 \* history: what the last isCurrentlyRateLimited call returned
    lapsed,                 \* history: a call since lastObs has cleared an elapsed limit
    raw,                    \* the error handed to normalizeError
    norm,                   \* what normalizeError returned for it
    norm2,                  \* what normalizeError returned for that result, handed to it again
    retryAsked,             \* the last shouldRetry call: its argument and what it returned
    delayAsked              \* the last getBackoffDelay call: its argument and what it returned

lifecycleVars == <<client, initializationPromise, initTask, waiters, mq,
                   op, pc, awaiting, own, res, used, first, afterFail, handleAtReturn>>
requestVars == <<isRateLimited, attempt, settled, lastError, ewr, outcomes, delays>>

pollCtl == <<hasOnProgress, primary, aborted, awaitCalls, iterations, callbacks, loopExit>>
pollVars == <<pollCtl, fetchesAfter>>

trackerVars == <<nextResetTime, now, lastObs, thrown, answer, lapsed>>
normVars == <<raw, norm, norm2>>
backoffVars == <<retryAsked, delayAsked>>
pureVars == <<trackerVars, normVars, backoffVars>>

vars == <<lifecycleVars, requestVars, pollVars, pureVars>>

----------------------------------------------------------------------------
(* Values *)

\* meta holds the fields retryAfter, limit, remaining and reset of a
\* RateLimitError (Absent: undefined).
Absent == -1
Meta(retryAfter, limit, remaining, reset) ==
    [retryAfter |-> retryAfter, limit |-> limit, remaining |-> remaining, reset |-> reset]
NoMeta == Meta(Absent, Absent, Absent, Absent)
\* A value that a call returns or throws, or that a promise settles with.
\* t: "none" (nothing yet), "ok" (a value, a response with ok = true),
\* "notok" (a response with ok = false) or "err" (a thrown error).  For an
\* error: cls is its class, status its response.status (statusCode for a
\* ServerError; 0: none), code its code, msg the kind of its message, and
\* id tells the errors of different invocations apart (0: made by the client).
Value(t, cls, status, code, msg, id) ==
    [t |-> t, cls |-> cls, status |-> status, code |-> code, msg |-> msg, id |-> id,
     meta |-> NoMeta]
NoRes == Value("none", "", 0, "", "", 0)
Ok == Value("ok", "", 0, "", "", 0)
\* new GlobalpingError(message): errors.ts, the base class of the taxonomy
GlobalpingError(msg) == Value("err", "GlobalpingError", 0, "", msg, 0)
\* new Error(message), and the error a collaborator threw
RawError(msg) == Value("err", "Error", 0, "", msg, 0)
\* new RateLimitError(message, ...): code 'RATE_LIMIT'
RateLimitError(msg) == Value("err", "RateLimitError", 0, "RATE_LIMIT", msg, 0)
\* new ApiError(response.request, response.response, response.data)
ApiError(resp) == Value("err", "ApiError", resp.status, "", resp.msg, 0)

\* error.message.includes('network').  The message ensureInitialized
\* builds ends in "Please check your network connection and try again."
MessageIncludesNetwork(msg) == msg \in {"network", "initFailed"}
\* error.message.includes('Cannot read properties of undefined')
MessageIncludesUndefinedRead(msg) == msg = "undefinedRead"

\* What the config provider answers to getAuthToken().
TokenOutcomes == {"token", "noToken", "throws"}
\* What new Globalping(options) yields: a full handle, or one without
\* createMeasurement.  (A constructor call never yields undefined, so the
\* check of line 85 never fires; "undef" stands for it in the body below.)
ClientShapes == {"full", "noCreate"}

\* typeof newClient.createMeasurement === 'function'
HasCreateMeasurement(shape) == shape = "full"

\* this.client && typeof this.client.createMeasurement === 'function'
ClientUsable(c) == c # "absent" /\ HasCreateMeasurement(c)

\* The body of initializeClient once getAuthToken has settled: the
\* promise's status, its error, and this.client afterwards.  cur is
\* this.client before.
\* (a variant that assigns this.client before validating it and leaves it set)
InitializeClientBodyAssignFirst(tok, shape, cur) ==
    IF tok = "throws"
    THEN [status |-> "rejected", err |-> "tokenError", client |-> "absent"]
    ELSE IF shape = "undef"
    THEN [status |-> "rejected", err |-> "ctorUndefined", client |-> "absent"]
    ELSE IF ~HasCreateMeasurement(shape)
    THEN [status |-> "rejected", err |-> "missingCreate", client |-> shape]
    ELSE [status |-> "resolved", err |-> "", client |-> shape]
InitializeClientBody(tok, shape, cur) ==
    IF tok = "throws"
    THEN [status |-> "rejected", err |-> "tokenError", client |-> "absent"]
    ELSE IF shape = "undef"
    THEN [status |-> "rejected", err |-> "ctorUndefined", client |-> "absent"]
    ELSE IF ~HasCreateMeasurement(shape)
    THEN [status |-> "rejected", err |-> "missingCreate", client |-> "absent"]
    ELSE [status |-> "resolved", err |-> "", client |-> shape]

----------------------------------------------------------------------------
(* Client Lifecycle Manager: initializeClient, ensureInitialized, reinitialize *)

Pending(i) == initTask[i].status = "pending"
Settled(i) == initTask[i].status \in {"resolved", "rejected"}
Unused(i) == initTask[i].status = "unused"

\* The id the next initializeClient run gets.
FreshInit == CHOOSE i \in InitIds : Unused(i) /\ \A j \in InitIds : j < i => ~Unused(j)
CanStartInit == \E i \in InitIds : Unused(i)

\* Tasks are numbered in the order of their calls; the task of a progress
\* loop is numbered right after the pollMeasurement call that starts it.
NextCaller(p) ==
    /\ pc[p] = "idle" /\ op[p] = "none"
    /\ \A q \in Procs : q < p => (pc[q] # "idle" \/ op[q] = "loop")

SomeEnsureFailed == \E p \in Procs : op[p] = "ensure" /\ pc[p] = "done" /\ res[p].t = "err"

\* await of the promise of run i by task p: the continuation is queued at
\* once when the promise has settled already, and waits for it otherwise.
\* q is the microtask queue, w the waiters, before the await.
QueueAfterAwait(q, i, p) == IF Settled(i) THEN Append(q, p) ELSE q
WaitersAfterAwait(w, i, p) == IF Settled(i) THEN w ELSE [w EXCEPT ![i] = Append(@, p)]

\* ensureInitialized returns (lines 116, 128, 143-148).  The caller of a
\* public method awaits it and goes on in a later microtask (pollMeasurement
\* after line 262, the other methods after lines 178, 214 and 369).
EnsureReturn(p, o, q, ip) ==
    /\ initializationPromise' = ip
    /\ awaiting' = [awaiting EXCEPT ![p] = 0]
    /\ IF o = "ensure"
       THEN /\ pc' = [pc EXCEPT ![p] = "done"]
            /\ res' = [res EXCEPT ![p] = Ok]
            /\ handleAtReturn' = [handleAtReturn EXCEPT ![p] = client]
            /\ mq' = q
       ELSE /\ pc' = [pc EXCEPT ![p] = IF o = "poll" THEN "P262" ELSE "afterEnsure"]
            /\ mq' = Append(q, p)
            /\ UNCHANGED <<res, handleAtReturn>>
    /\ UNCHANGED <<client, initTask, waiters, own, used, first>>

\* ensureInitialized throws GlobalpingError (lines 149-164); the public
\* method that awaited it rejects with that error.  The progress loop
\* awaits its getMeasurement call (line 282) and sees the rejection in a
\* later microtask.
EnsureThrow(p, q) ==
    /\ initializationPromise' = 0
    /\ awaiting' = [awaiting EXCEPT ![p] = 0]
    /\ pc' = [pc EXCEPT ![p] = IF op[p] = "loop" THEN "L282" ELSE "done"]
    /\ res' = [res EXCEPT ![p] = GlobalpingError("initFailed")]
    /\ handleAtReturn' = [handleAtReturn EXCEPT ![p] = client]
    /\ mq' = IF op[p] = "loop" THEN Append(q, p) ELSE q
    /\ UNCHANGED <<client, initTask, waiters, own, used, first>>

\* Lines 120-122: await this.initializationPromise.
EnsureAwaitExisting(p, q) ==
    LET i == initializationPromise IN
    /\ awaiting' = [awaiting EXCEPT ![p] = i]
    /\ pc' = [pc EXCEPT ![p] = "E122"]
    /\ mq' = QueueAfterAwait(q, i, p)
    /\ waiters' = WaitersAfterAwait(waiters, i, p)
    /\ used' = [used EXCEPT ![p] = @ \cup {i}]
    /\ first' = [first EXCEPT ![p] = IF @ = 0 THEN i ELSE @]
    /\ UNCHANGED <<client, initializationPromise, initTask, own, res, handleAtReturn>>

\* Lines 141-142: this.initializationPromise = this.initializeClient();
\* await this.initializationPromise.  initializeClient runs up to its
\* await of getAuthToken.
EnsureStartOwn(p, q) ==
    LET i == FreshInit IN
    /\ CanStartInit
    /\ initTask' = [initTask EXCEPT ![i].status = "pending"]
    /\ initializationPromise' = i
    /\ awaiting' = [awaiting EXCEPT ![p] = i]
    /\ own' = [own EXCEPT ![p] = i]
    /\ pc' = [pc EXCEPT ![p] = "E142"]
    /\ waiters' = [waiters EXCEPT ![i] = Append(@, p)]
    /\ used' = [used EXCEPT ![p] = @ \cup {i}]
    /\ first' = [first EXCEPT ![p] = IF @ = 0 THEN i ELSE @]
    /\ mq' = q
    /\ UNCHANGED <<client, res, handleAtReturn>>

\* ensureInitialized from its entry to its first await (lines 113-122, 141).
EnsureEnter(p, o, q) ==
    IF ClientUsable(client)
    THEN EnsureReturn(p, o, q, initializationPromise)
    ELSE IF initializationPromise # 0
    THEN EnsureAwaitExisting(p, q)
    ELSE EnsureStartOwn(p, q)

\* A caller invokes ensureInitialized (ensureReady).
CallEnsure(p) ==
    /\ NextCaller(p)
    /\ op' = [op EXCEPT ![p] = "ensure"]
    /\ afterFail' = [afterFail EXCEPT ![p] = SomeEnsureFailed]
    /\ EnsureEnter(p, "ensure", mq)
    /\ UNCHANGED <<requestVars, pollVars, pureVars>>

\* A caller invokes reinitialize (lines 170-172): await this.initializeClient().
CallReinitialize(p) ==
    LET i == FreshInit IN
    /\ NextCaller(p)
    /\ Cardinality({q \in Procs : op[q] = "reinit"}) < MaxReinits
    /\ CanStartInit
    /\ op' = [op EXCEPT ![p] = "reinit"]
    /\ initTask' = [initTask EXCEPT ![i].status = "pending"]
    /\ awaiting' = [awaiting EXCEPT ![p] = i]
    /\ pc' = [pc EXCEPT ![p] = "R171"]
    /\ waiters' = [waiters EXCEPT ![i] = Append(@, p)]
    /\ used' = [used EXCEPT ![p] = @ \cup {i}]
    /\ UNCHANGED <<client, initializationPromise, mq, own, res, first, afterFail, handleAtReturn>>
    /\ UNCHANGED <<requestVars, pollVars, pureVars>>

\* getAuthToken of run i settles and initializeClient runs to its end
\* (lines 69-107): the handle is published or cleared, the run's promise
\* settles, and the tasks awaiting it are queued.
InitializeClientSettles(i) ==
    \E tok \in TokenOutcomes, shape \in ClientShapes :
        LET r == InitializeClientBody(tok, shape, client) IN
        /\ Pending(i)
        /\ client' = r.client
        /\ initTask' = [initTask EXCEPT ![i] = [status |-> r.status, err |-> r.err]]
        /\ mq' = mq \o waiters[i]
        /\ waiters' = [waiters EXCEPT ![i] = <<>>]
        /\ UNCHANGED <<initializationPromise, op, pc, awaiting, own, res, used, first,
                       afterFail, handleAtReturn>>
        /\ UNCHANGED <<requestVars, pollVars, pureVars>>

\* The continuation of line 122 (lines 123-137, then 141).
ResumeExistingAwait(p) ==
    /\ mq # <<>> /\ Head(mq) = p
    /\ pc[p] = "E122"
    /\ UNCHANGED <<op, afterFail>>
    /\ UNCHANGED <<requestVars, pollVars, pureVars>>
    /\ IF initTask[awaiting[p]].status = "resolved" /\ ClientUsable(client)
       THEN EnsureReturn(p, op[p], Tail(mq), 0)
       ELSE \* the promise rejected, or line 131 threw: caught at 132, retry at 141
            EnsureStartOwn(p, Tail(mq))

\* The continuation of line 142 (lines 143-164).
ResumeOwnAwait(p) ==
    /\ mq # <<>> /\ Head(mq) = p
    /\ pc[p] = "E142"
    /\ UNCHANGED <<op, afterFail>>
    /\ UNCHANGED <<requestVars, pollVars, pureVars>>
    /\ IF initTask[awaiting[p]].status = "resolved"
       THEN IF ClientUsable(client)
            THEN EnsureReturn(p, op[p], Tail(mq), 0)
            ELSE EnsureThrow(p, Tail(mq))
       ELSE EnsureThrow(p, Tail(mq))

\* The continuation of line 171: reinitialize settles as initializeClient did.
ResumeReinitialize(p) ==
    /\ mq # <<>> /\ Head(mq) = p
    /\ pc[p] = "R171"
    /\ pc' = [pc EXCEPT ![p] = "done"]
    /\ res' = [res EXCEPT ![p] = IF initTask[awaiting[p]].status = "resolved"
                                 THEN Ok ELSE RawError(initTask[awaiting[p]].err)]
    /\ handleAtReturn' = [handleAtReturn EXCEPT ![p] = client]
    /\ awaiting' = [awaiting EXCEPT ![p] = 0]
    /\ mq' = Tail(mq)
    /\ UNCHANGED <<client, initializationPromise, initTask, waiters, op, own, used,
                   first, afterFail>>
    /\ UNCHANGED <<requestVars, pollVars, pureVars>>

----------------------------------------------------------------------------
(* Rate Limit Tracker: RateLimitHandler (testConfigBuilder.ts, lines 74-169) *)

MAX_RETRIES == 5
BASE_DELAY == 1000

\* shouldRetry(attempt)
ShouldRetry(a) == a < MAX_RETRIES

\* getBackoffDelay(attempt) = BASE_DELAY * Math.pow(2, attempt)
RECURSIVE Pow2(_)
Pow2(n) == IF n = 0 THEN 1 ELSE 2 * Pow2(n - 1)
\* (a variant whose delay grows by BASE_DELAY with every attempt)
GetBackoffDelayLinear(a) == BASE_DELAY * (a + 1)
GetBackoffDelay(a) == BASE_DELAY * Pow2(a)

\* The attempt numbers shouldRetry and getBackoffDelay are called with.
MaxAttemptArg == 9
AttemptArgs == 0..MaxAttemptArg
\* No call yet.
NoCall == [attempt |-> -1, returned |-> FALSE]
NoDelay == [attempt |-> -1, returned |-> 0]

\* A caller calls shouldRetry(attempt), lines 121-123.
ShouldRetryCall ==
    \E a \in AttemptArgs :
        /\ retryAsked' = [attempt |-> a, returned |-> ShouldRetry(a)]
        /\ UNCHANGED <<delayAsked, trackerVars, normVars>>
        /\ UNCHANGED <<lifecycleVars, requestVars, pollVars>>

\* A caller calls getBackoffDelay(attempt), lines 128-131.
GetBackoffDelayCall ==
    \E a \in AttemptArgs :
        /\ delayAsked' = [attempt |-> a, returned |-> GetBackoffDelay(a)]
        /\ UNCHANGED <<retryAsked, trackerVars, normVars>>
        /\ UNCHANGED <<lifecycleVars, requestVars, pollVars>>

\* this.nextResetTime = null
NoTime == -1
\* A response: its status and its headers retry-after, x-ratelimit-limit,
\* x-ratelimit-remaining and x-ratelimit-reset.  A header is a string of
\* digits, held as the number parseInt makes of it (Absent: no such header).
Response(status, headers) == [status |-> status, headers |-> headers]
NoHeaders == Meta(Absent, Absent, Absent, Absent)
\* handleResponse returned (NoThrow), or threw a RateLimitError with
\* these fields.
NoThrow == [threw |-> FALSE, meta |-> NoMeta]
Throws(meta) == [threw |-> TRUE, meta |-> meta]

\* new Date(parseInt(reset) * 1000), line 97: seconds to milliseconds
ResetTimeOf(reset) == reset * 1000

\* retrySeconds || undefined, line 104: 0 is falsy
OrUndefined(n) == IF n = 0 THEN Absent ELSE n

\* handleResponse(response), lines 86-116: the fields afterwards and what
\* it throws.  limited and resetTime are the fields before.
\* (a variant that reads a missing remaining header as "not limited")
HandleResponseOnUnguarded(response, limited, resetTime) ==
    LET h == response.headers IN
    IF response.status = 429
    THEN LET nrt == IF h.reset # Absent THEN ResetTimeOf(h.reset) ELSE resetTime
             retrySeconds == h.retryAfter
         IN [limited |-> TRUE,
             nextResetTime |-> nrt,
             thrown |-> Throws(Meta(IF retrySeconds = Absent THEN Absent
                                    ELSE OrUndefined(retrySeconds),
                                    h.limit, h.remaining,
                                    IF nrt = NoTime THEN Absent ELSE nrt))]
    ELSE [limited |-> h.remaining = 0,
          nextResetTime |-> resetTime,
          thrown |-> NoThrow]
HandleResponseOn(response, limited, resetTime) ==
    LET h == response.headers IN
    IF response.status = 429
    THEN LET nrt == IF h.reset # Absent THEN ResetTimeOf(h.reset) ELSE resetTime
             retrySeconds == h.retryAfter
         IN [limited |-> TRUE,
             nextResetTime |-> nrt,
             thrown |-> Throws(Meta(IF retrySeconds = Absent THEN Absent
                                    ELSE OrUndefined(retrySeconds),
                                    h.limit, h.remaining,
                                    IF nrt = NoTime THEN Absent ELSE nrt))]
    ELSE [limited |-> IF h.remaining # Absent THEN h.remaining = 0 ELSE limited,
          nextResetTime |-> resetTime,
          thrown |-> NoThrow]

\* handleResponse(response) for a response without headers, as
\* executeWithRetry sees it: the flag afterwards, and whether it throws.
\* (a variant that records the 429 and returns)
HandleResponseReturns(status, limited) ==
    IF status = 429
    THEN [limited |-> TRUE, throws |-> FALSE]
    ELSE [limited |-> limited, throws |-> FALSE]
HandleResponse(status, limited) ==
    LET r == HandleResponseOn(Response(status, NoHeaders), limited, NoTime) IN
    [limited |-> r.limited, throws |-> r.thrown.threw]

\* The responses handleResponse is called with.
ObservedStatuses == {200, 429}
RetryAfterHeaders == {Absent, 0, 5}
LimitHeaders == {Absent, 100}
RemainingHeaders == {Absent, 0, 3}
ResetHeaders == {Absent, 1, 2}
Responses ==
    {Response(st, Meta(ra, li, re, rs)) :
        st \in ObservedStatuses, ra \in RetryAfterHeaders, li \in LimitHeaders,
        re \in RemainingHeaders, rs \in ResetHeaders}

\* The clock: it advances by TickMs, up to MaxNow.
TickMs == 1000
MaxNow == 3000

\* A record of a handleResponse call: the response, the clock, and the
\* fields isRateLimited and nextResetTime before and after it.
Fields(limited, resetTime) == [limited |-> limited, nextResetTime |-> resetTime]
Obs(response, at, before, after) ==
    [response |-> response, at |-> at, before |-> before, after |-> after]
NoObs == Obs(Response(0, NoHeaders), 0, Fields(FALSE, NoTime), Fields(FALSE, NoTime))

\* new Date() > this.nextResetTime, line 150
\* (a variant that takes the limit as elapsed at the reset time itself)
ElapsedAtReset(t, resetTime) == t >= resetTime
Elapsed(t, resetTime) == t > resetTime

\* this.nextResetTime && ..., line 150: a reset time is stored.
\* (a variant that compares the clock with the field even when it is null)
ResetStoredOrNull(resetTime) == TRUE
ResetStored(resetTime) == resetTime # NoTime

\* A caller (executeWithRetry, or another user of the handler) calls
\* handleResponse(response).
HandleResponseCall ==
    \E response \in Responses :
        LET r == HandleResponseOn(response, isRateLimited, nextResetTime) IN
        /\ isRateLimited' = r.limited
        /\ nextResetTime' = r.nextResetTime
        /\ thrown' = r.thrown
        /\ lastObs' = Obs(response, now, Fields(isRateLimited, nextResetTime),
                          Fields(r.limited, r.nextResetTime))
        /\ answer' = "none"
        /\ lapsed' = FALSE
        /\ UNCHANGED <<now, normVars, backoffVars>>
        /\ UNCHANGED <<lifecycleVars, pollVars>>
        /\ UNCHANGED <<attempt, settled, lastError, ewr, outcomes, delays>>

\* A caller calls isCurrentlyRateLimited(), lines 145-157.
IsCurrentlyRateLimitedCall ==
    /\ IF ~isRateLimited
       THEN /\ answer' = "false"
            /\ UNCHANGED <<isRateLimited, nextResetTime, lapsed>>
       ELSE IF ResetStored(nextResetTime) /\ Elapsed(now, nextResetTime)
       THEN /\ isRateLimited' = FALSE
            /\ nextResetTime' = NoTime
            /\ answer' = "false"
            /\ lapsed' = TRUE
       ELSE /\ answer' = "true"
            /\ UNCHANGED <<isRateLimited, nextResetTime, lapsed>>
    /\ UNCHANGED <<now, lastObs, thrown, normVars, backoffVars>>
    /\ UNCHANGED <<lifecycleVars, pollVars>>
    /\ UNCHANGED <<attempt, settled, lastError, ewr, outcomes, delays>>

\* Time passes.
Tick ==
    /\ now < MaxNow
    /\ now' = now + TickMs
    /\ UNCHANGED <<nextResetTime, lastObs, thrown, answer, lapsed, normVars, backoffVars>>
    /\ UNCHANGED <<lifecycleVars, requestVars, pollVars>>

----------------------------------------------------------------------------
(* Error Normalizer: normalizeError, isNetworkError *)

\* isNetworkError(error), lines 621-629
IsNetworkError(e) ==
    \/ e.code \in {"ECONNREFUSED", "ENOTFOUND", "ENETUNREACH", "EAI_AGAIN"}
    \/ MessageIncludesNetwork(e.msg)

\* error.response, line 579: an error of the transport that carries a
\* response.  An error of the taxonomy has none (a ServerError has a
\* statusCode, errors.ts line 63).
HasResponse(e) == e.cls = "Error" /\ e.status # 0

\* The switch on the status, lines 557-575 and 583-601.
NormalizeStatus(status, msg) ==
    CASE status = 400 -> Value("err", "ValidationError", 0, "VALIDATION_ERROR", msg, 0)
      [] status \in {401, 403} -> Value("err", "AuthenticationError", 0, "AUTH_ERROR", msg, 0)
      [] status = 429 -> RateLimitError(msg)
      [] status = 404 -> GlobalpingError("Resource not found")
      [] status = 422 -> GlobalpingError(msg)
      [] status \in {500, 502, 503} -> Value("err", "ServerError", status, "SERVER_ERROR", msg, 0)
      [] OTHER -> GlobalpingError(msg)

\* The ErrorKind a surfaced error is tagged with: its class (errors.ts).
\* An error of no class of the taxonomy is "raw".
KindOf(e) ==
    CASE e.cls = "ValidationError" -> "Validation"
      [] e.cls = "AuthenticationError" -> "Authentication"
      [] e.cls = "RateLimitError" -> "RateLimit"
      [] e.cls = "ServerError" -> "Server"
      [] e.cls = "NetworkError" -> "Network"
      [] e.cls = "TimeoutError" -> "Timeout"
      [] e.cls = "GlobalpingError" -> "Generic"
      [] OTHER -> "raw"

\* normalizeError(error), lines 536-616.  NoRes stands for a null or
\* undefined error.
\* (a variant that builds a new RateLimitError from the message, as line 564 does)
NormalizeErrorRebuilds(e) ==
    IF e.t = "none" THEN GlobalpingError("Unknown error occurred")
    ELSE IF e.cls = "RateLimitError" THEN RateLimitError(e.msg)
    ELSE IF MessageIncludesUndefinedRead(e.msg)
    THEN GlobalpingError("Globalping client not initialized. Please try again.")
    ELSE IF e.cls = "ApiError" THEN NormalizeStatus(e.status, e.msg)
    ELSE IF HasResponse(e) THEN NormalizeStatus(e.status, e.msg)
    ELSE IF IsNetworkError(e)
    THEN Value("err", "NetworkError", 0, "NETWORK_ERROR", "Cannot reach Globalping API", 0)
    ELSE IF e.code \in {"ETIMEDOUT", "ESOCKETTIMEDOUT"}
    THEN Value("err", "TimeoutError", 0, "TIMEOUT_ERROR", "Request timeout", 0)
    ELSE GlobalpingError(IF e.msg # "" THEN e.msg ELSE "Unknown error occurred")
\* (a variant whose last rule returns the error as it was raised)
NormalizeErrorPassesUnknown(e) ==
    IF e.t = "none" THEN GlobalpingError("Unknown error occurred")
    ELSE IF e.cls = "RateLimitError" THEN e
    ELSE IF MessageIncludesUndefinedRead(e.msg)
    THEN GlobalpingError("Globalping client not initialized. Please try again.")
    ELSE IF e.cls = "ApiError" THEN NormalizeStatus(e.status, e.msg)
    ELSE IF HasResponse(e) THEN NormalizeStatus(e.status, e.msg)
    ELSE IF IsNetworkError(e)
    THEN Value("err", "NetworkError", 0, "NETWORK_ERROR", "Cannot reach Globalping API", 0)
    ELSE IF e.code \in {"ETIMEDOUT", "ESOCKETTIMEDOUT"}
    THEN Value("err", "TimeoutError", 0, "TIMEOUT_ERROR", "Request timeout", 0)
    ELSE e
NormalizeError(e) ==
    IF e.t = "none" THEN GlobalpingError("Unknown error occurred")
    ELSE IF e.cls = "RateLimitError" THEN e
    ELSE IF MessageIncludesUndefinedRead(e.msg)
    THEN GlobalpingError("Globalping client not initialized. Please try again.")
    ELSE IF e.cls = "ApiError" THEN NormalizeStatus(e.status, e.msg)
    ELSE IF HasResponse(e) THEN NormalizeStatus(e.status, e.msg)
    ELSE IF IsNetworkError(e)
    THEN Value("err", "NetworkError", 0, "NETWORK_ERROR", "Cannot reach Globalping API", 0)
    ELSE IF e.code \in {"ETIMEDOUT", "ESOCKETTIMEDOUT"}
    THEN Value("err", "TimeoutError", 0, "TIMEOUT_ERROR", "Request timeout", 0)
    ELSE GlobalpingError(IF e.msg # "" THEN e.msg ELSE "Unknown error occurred")

\* The errors normalizeError is called with: errors thrown by the
\* transport or the client (with or without a response status), ApiErrors
\* (always with a response), and RateLimitErrors (with or without metadata).
RawStatuses == {400, 401, 403, 404, 422, 429, 500, 502, 503, 504}
RawCodes == {"", "ENOTFOUND", "ETIMEDOUT"}
RawMessages == {"", "plain", "network", "undefinedRead"}
RawMetas == {NoMeta, Meta(5, 100, 0, 2000)}
RawErrors ==
    {Value("err", "Error", st, c, msg, 0) :
        st \in RawStatuses \cup {0}, c \in RawCodes, msg \in RawMessages}
    \cup {Value("err", "ApiError", st, "", msg, 0) : st \in RawStatuses, msg \in RawMessages}
    \cup {[RateLimitError(msg) EXCEPT !.meta = mt] : msg \in RawMessages, mt \in RawMetas}

\* A catch block calls normalizeError(raw).
NormalizeCall ==
    /\ norm = NoRes
    /\ norm' = NormalizeError(raw)
    /\ UNCHANGED <<raw, norm2, trackerVars, backoffVars>>
    /\ UNCHANGED <<lifecycleVars, requestVars, pollVars>>

\* A catch block calls normalizeError with an error that normalizeError
\* returned (an error a callee has normalized already).
NormalizeAgainCall ==
    /\ norm # NoRes /\ norm2 = NoRes
    /\ norm2' = NormalizeError(norm)
    /\ UNCHANGED <<raw, norm, trackerVars, backoffVars>>
    /\ UNCHANGED <<lifecycleVars, requestVars, pollVars>>

----------------------------------------------------------------------------
(* Request Executor: executeWithRetry, and createMeasurement, getMeasurement
   and getProbes, which wrap one transport call in it *)

\* for (let attempt = 0; attempt < 6; attempt++), line 493
MaxAttempts == 6
\* setTimeout(resolve, 2000), lines 514 and 521
ServerRetryDelay == 2000
NetworkRetryDelay == 2000

\* createMeasurement (lines 177-208), getMeasurement (213-239) and
\* getProbes (368-396) have one body, up to the transport method that the
\* operation calls: they are one operation here.
RequestOps == {"request"}

\* What a call of the transport ends with: a response (ok or not), or a
\* thrown error: one without a response (plain, with a network code, with a
\* timeout code, or with "network" in its message), or one with a response
\* status (and, for one of them, "network" in its message).
ResponseStatuses == {400, 429, 500}
ThrownStatuses == {400, 429, 500, 599, 600}
TransportOutcomes(id) ==
    {Value("ok", "", 0, "", "", id)}
    \cup {Value("notok", "", st, "", "plain", id) : st \in ResponseStatuses}
    \cup {Value("err", "Error", 0, c, "plain", id) : c \in {"", "ENOTFOUND", "ETIMEDOUT"}}
    \cup {Value("err", "Error", 0, "", "network", id)}
    \cup {Value("err", "Error", st, "", "plain", id) : st \in ThrownStatuses}
    \cup {Value("err", "Error", 400, "", "network", id)}

\* What a snapshot fetch of the progress loop ends with: one outcome for
\* each way executeWithRetry treats it (a response, ok or not; a thrown 429,
\* a thrown 5xx, a thrown network error, and a thrown error of no kind).
SnapshotOutcomes(id) ==
    {Value("ok", "", 0, "", "", id),
     Value("notok", "", 500, "", "plain", id),
     Value("err", "Error", 429, "", "plain", id),
     Value("err", "Error", 500, "", "plain", id),
     Value("err", "Error", 0, "ENOTFOUND", "plain", id),
     Value("err", "Error", 0, "", "plain", id)}

\* return await operation() inside try, lines 494-496: the catch block sees
\* what the operation throws.  The transport is built with throwApiErrors:
\* false (line 77), so a response that is not ok is returned, not thrown.
\* (a variant whose transport throws for a response that is not ok)
CaughtOrNotOk(out) == out.t # "ok"
Caught(out) == out.t = "err"

\* The conditions of lines 500, 512 and 519 on a caught error.
IsRateLimitShaped(e) == e.status = 429
\* (a variant that retries a 5xx failure while attempts remain)
RetriesServerErrorAlways(e, a) == e.status >= 500 /\ e.status < 600 /\ a < MAX_RETRIES
RetriesServerError(e, a) == e.status >= 500 /\ e.status < 600 /\ a = 0
\* (a variant that retries a network failure on every attempt)
RetriesNetworkErrorAlways(e, a) == IsNetworkError(e)
RetriesNetworkError(e, a) == IsNetworkError(e) /\ a = 0

\* pollMeasurement has gone on after its await of the primary wait (line 317
\* or 346) and has settled.
PrimaryReturned ==
    \E m \in Procs : op[m] = "poll" /\ pc[m] = "done" /\ primary.t # "none"

\* The public method settles: it returns the data, or throws.  The
\* progress loop awaits its getMeasurement call (line 282) and goes on in a
\* later microtask.
RequestSettles(p, q, r) ==
    /\ pc' = [pc EXCEPT ![p] = IF op[p] = "loop" THEN "L282" ELSE "done"]
    /\ res' = [res EXCEPT ![p] = r]
    /\ handleAtReturn' = [handleAtReturn EXCEPT ![p] = client]
    /\ mq' = IF op[p] = "loop" THEN Append(q, p) ELSE q

\* operation(): the closure of lines 188-194 (224-229, 379-384).  Without
\* a handle it throws; the rejection is seen by the await of line 495 in a
\* later microtask.  With one, the transport call is issued.
InvokeOperation(p, q, a) ==
    /\ attempt' = [attempt EXCEPT ![p] = a]
    /\ pc' = [pc EXCEPT ![p] = "T495"]
    /\ IF client = "absent"
       THEN /\ settled' = [settled EXCEPT ![p] =
                              Value("err", "Error", 0, "", "clientUndefined", a + 1)]
            /\ mq' = Append(q, p)
            /\ UNCHANGED fetchesAfter
       ELSE /\ settled' = [settled EXCEPT ![p] = NoRes]
            /\ mq' = q
            /\ fetchesAfter' = IF op[p] = "loop" /\ PrimaryReturned
                               THEN fetchesAfter + 1 ELSE fetchesAfter
    /\ UNCHANGED <<res, handleAtReturn>>

\* A caller invokes createMeasurement, getMeasurement or getProbes:
\* await this.ensureInitialized() (lines 178, 214, 369).
CallRequest(p) ==
    \E o \in RequestOps :
        /\ NextCaller(p)
        /\ Cardinality({q \in Procs : op[q] \in RequestOps}) < MaxRequests
        /\ op' = [op EXCEPT ![p] = o]
        /\ EnsureEnter(p, o, mq)
        /\ UNCHANGED afterFail
        /\ UNCHANGED <<requestVars, pollVars, pureVars>>

\* After ensureInitialized has returned (lines 181-188): the check of the
\* handle, then executeWithRetry's first invocation of the operation.
ResumeAfterEnsure(p) ==
    /\ mq # <<>> /\ Head(mq) = p
    /\ pc[p] = "afterEnsure"
    /\ IF client = "absent"
       THEN /\ RequestSettles(p, Tail(mq), GlobalpingError("not initialized after waiting"))
            /\ UNCHANGED <<attempt, settled, fetchesAfter>>
       ELSE InvokeOperation(p, Tail(mq), 0)
    /\ UNCHANGED <<client, initializationPromise, initTask, waiters, op, awaiting, own,
                   used, first, afterFail>>
    /\ UNCHANGED <<isRateLimited, lastError, ewr, outcomes, delays>>
    /\ UNCHANGED <<pollCtl, pureVars>>

\* The transport call of task p settles.
TransportSettles(p) ==
    \E out \in IF op[p] = "loop" THEN SnapshotOutcomes(attempt[p] + 1)
                ELSE TransportOutcomes(attempt[p] + 1) :
        /\ pc[p] = "T495"
        /\ settled[p].t = "none"
        /\ settled' = [settled EXCEPT ![p] = out]
        /\ mq' = Append(mq, p)
        /\ UNCHANGED <<client, initializationPromise, initTask, waiters, op, pc, awaiting,
                       own, res, used, first, afterFail, handleAtReturn>>
        /\ UNCHANGED <<isRateLimited, attempt, lastError, ewr, outcomes, delays>>
        /\ UNCHANGED <<pollVars, pureVars>>

\* executeWithRetry waits ms milliseconds before its next attempt.
StartWait(p, q, ms) ==
    /\ pc' = [pc EXCEPT ![p] = "sleep"]
    /\ delays' = [delays EXCEPT ![p] = Append(@, ms)]
    /\ mq' = q
    /\ UNCHANGED <<res, handleAtReturn, ewr>>

\* executeWithRetry settles with r, and the method that called it goes on
\* (lines 196-207): a response that is not ok becomes an ApiError, and
\* every error is normalized.
ExecuteSettles(p, q, r) ==
    /\ ewr' = [ewr EXCEPT ![p] = r]
    /\ UNCHANGED delays
    /\ RequestSettles(p, q,
          CASE r.t = "ok" -> r
            [] r.t = "notok" -> NormalizeError(ApiError(r))
            [] OTHER -> NormalizeError(r))

\* The continuation of line 495: the operation returned (executeWithRetry
\* returns that) or threw (the catch of lines 496-527).
ResumeTransport(p) ==
    LET out == settled[p]
        a == attempt[p]
        h == HandleResponse(out.status, isRateLimited)
    IN
    /\ mq # <<>> /\ Head(mq) = p
    /\ pc[p] = "T495"
    /\ outcomes' = [outcomes EXCEPT ![p] = Append(@, out)]
    /\ settled' = [settled EXCEPT ![p] = NoRes]
    /\ UNCHANGED <<client, initializationPromise, initTask, waiters, op, awaiting, own,
                   used, first, afterFail, attempt>>
    /\ UNCHANGED <<pollVars, pureVars>>
    /\ IF ~Caught(out)
       THEN /\ ExecuteSettles(p, Tail(mq), out)
            /\ UNCHANGED <<lastError, isRateLimited>>
       ELSE /\ lastError' = [lastError EXCEPT ![p] = out]
            /\ IF IsRateLimitShaped(out)
               THEN /\ isRateLimited' = h.limited
                    /\ IF h.throws
                       THEN ExecuteSettles(p, Tail(mq),
                                RateLimitError("Rate limit exceeded"))
                       ELSE IF ShouldRetry(a)
                       THEN StartWait(p, Tail(mq), GetBackoffDelay(a))
                       ELSE ExecuteSettles(p, Tail(mq), out)
               ELSE /\ UNCHANGED isRateLimited
                    /\ IF RetriesServerError(out, a)
                       THEN StartWait(p, Tail(mq), ServerRetryDelay)
                       ELSE IF RetriesNetworkError(out, a)
                       THEN StartWait(p, Tail(mq), NetworkRetryDelay)
                       ELSE ExecuteSettles(p, Tail(mq), out)

\* The timer of a wait fires (the microtask queue is empty) and the loop of
\* line 493 goes on: attempt++, and the next invocation, or throw lastError
\* (line 530).
TimerFires(p) ==
    /\ mq = <<>>
    /\ pc[p] = "sleep"
    /\ IF attempt[p] + 1 < MaxAttempts
       THEN /\ InvokeOperation(p, mq, attempt[p] + 1)
            /\ UNCHANGED <<ewr, delays>>
       ELSE /\ ExecuteSettles(p, mq, lastError[p])
            /\ UNCHANGED <<attempt, settled, fetchesAfter>>
    /\ UNCHANGED <<client, initializationPromise, initTask, waiters, op, awaiting, own,
                   used, first, afterFail>>
    /\ UNCHANGED <<isRateLimited, lastError, outcomes>>
    /\ UNCHANGED <<pollCtl, pureVars>>

----------------------------------------------------------------------------
(* Polling Engine: pollMeasurement (lines 245-363) *)

\* Number of getMeasurement calls the progress loop of a behaviour makes.
MaxIterations == 2

\* The task of the progress loop (the async function of lines 279-313)
\* that the pollMeasurement call of task p starts.
LoopOf(p) == p + 1

\* What client.awaitMeasurement(id) ends with: a response (ok or not) or a
\* thrown error.
PrimaryOutcomes ==
    {Value("ok", "", 0, "", "", 0),
     Value("notok", "", 500, "", "plain", 0),
     Value("err", "Error", 0, "ENOTFOUND", "plain", 0),
     Value("err", "Error", 0, "", "plain", 0)}
\* measurement.status of a fetched snapshot
SnapshotStatuses == {"in-progress", "finished"}

\* Line 285: if (abortController.signal.aborted) break, before the callback.
\* (a variant that goes on to the callback whatever the signal)
CancelledBeforeCallbackIgnored(a) == FALSE
CancelledBeforeCallback(a) == a

\* progressCallback(measurement), line 290: the callback returns or throws.
CallbackOutcomes == {"returns", "throws"}

\* What pollMeasurement settles with once the primary wait has settled with
\* r (lines 317-339, and 346-362): the data of an ok response; else the
\* normalized error, of an ApiError for a response that is not ok.
\* (a variant that returns the snapshot the progress loop fetched last)
PollResultSnapshot(r) ==
    CASE r.t = "ok" -> Value("ok", "", 0, "", "", 1)
      [] r.t = "notok" -> NormalizeError(ApiError(r))
      [] OTHER -> NormalizeError(r)
PollResult(r) ==
    CASE r.t = "ok" -> r
      [] r.t = "notok" -> NormalizeError(ApiError(r))
      [] OTHER -> NormalizeError(r)

\* Where the progress loop is after it has ended for the reason why: every
\* break (lines 286, 294 and 310) and the test of line 280 leave the while
\* loop, and the async function returns.
\* (a variant whose catch goes on to the interval wait after a failure)
PcAfterExitRetry(why) == IF why \in {"failed", "callbackThrew"} THEN "L298" ELSE "done"
\* (a variant that goes on to the interval wait after a finished snapshot)
PcAfterExitGoesOn(why) == IF why = "finished" THEN "L298" ELSE "done"
PcAfterExit(why) == "done"

\* if (options?.onProgress), line 268: the progress loop is started only
\* when a progress callback is given.
\* (a variant that starts the progress loop whatever the options)
ProgressRequestedAlways(onProgress) == TRUE
ProgressRequested(onProgress) == onProgress

\* abortController.abort(), on the return path (line 324) and in the catch
\* block (line 335): pollMeasurement sets the signal however the primary
\* wait settled (with r).
\* (a variant that sets the signal on the return path only)
AbortsOnSuccessOnly(r) == r.t = "ok"
AbortsWhenSettled(r) == TRUE

\* The listener of lines 300-303: when the signal is set, a loop that is
\* suspended in its interval wait (line 298) has its timer cleared and its
\* wait rejected, and goes on in its catch block (line 305); a loop
\* suspended elsewhere stays where it is.
\* (a variant without the listener: the wait lasts until the interval ends)
PcAfterAbortUnheard(pcl) == pcl
PcAfterAbort(pcl) == IF pcl = "L298" THEN "L305" ELSE pcl

\* A caller invokes pollMeasurement, with or without options.onProgress:
\* lines 250-262, await this.ensureInitialized().  A behaviour has one
\* pollMeasurement call.
CallPoll(p) ==
    \E prog \in BOOLEAN :
        /\ NextCaller(p)
        /\ LoopOf(p) \in Procs
        /\ \A q \in Procs : op[q] # "poll"
        /\ op' = [op EXCEPT ![p] = "poll", ![LoopOf(p)] = "loop"]
        /\ hasOnProgress' = prog
        /\ EnsureEnter(p, "poll", mq)
        /\ UNCHANGED afterFail
        /\ UNCHANGED <<requestVars, pureVars>>
        /\ UNCHANGED <<primary, aborted, awaitCalls, iterations, callbacks, loopExit, fetchesAfter>>

\* The loop ends (break, lines 286, 294 and 310, or the test of line 280).
LoopEnds(l, q, why) ==
    /\ pc' = [pc EXCEPT ![l] = PcAfterExit(why)]
    /\ loopExit' = why
    /\ mq' = q

\* The continuation of line 262 (lines 263-317, or 263-346).  Without a
\* handle pollMeasurement throws.  With a progress callback it calls
\* awaitMeasurement, starts the progress loop, which runs up to the await
\* in its first getMeasurement call (ensureInitialized returns at line 116:
\* a handle that is present has passed validation), and awaits the primary
\* wait; without one it calls awaitMeasurement and awaits it.
ResumePollAfterEnsure(p) ==
    LET l == LoopOf(p) IN
    /\ mq # <<>> /\ Head(mq) = p
    /\ pc[p] = "P262"
    /\ IF client = "absent"
       THEN /\ pc' = [pc EXCEPT ![p] = "done"]
            /\ res' = [res EXCEPT ![p] = GlobalpingError("not initialized after waiting")]
            /\ handleAtReturn' = [handleAtReturn EXCEPT ![p] = client]
            /\ mq' = Tail(mq)
            /\ UNCHANGED <<iterations, awaitCalls>>
       ELSE IF ProgressRequested(hasOnProgress)
       THEN /\ pc' = [pc EXCEPT ![p] = "P317", ![l] = "afterEnsure"]
            /\ mq' = Append(Tail(mq), l)
            /\ awaitCalls' = awaitCalls + 1
            /\ iterations' = 1
            /\ UNCHANGED <<res, handleAtReturn>>
       ELSE /\ pc' = [pc EXCEPT ![p] = "P346"]
            /\ mq' = Tail(mq)
            /\ awaitCalls' = awaitCalls + 1
            /\ UNCHANGED <<res, handleAtReturn, iterations>>
    /\ UNCHANGED <<client, initializationPromise, initTask, waiters, op, awaiting, own,
                   used, first, afterFail>>
    /\ UNCHANGED <<requestVars, pureVars>>
    /\ UNCHANGED <<hasOnProgress, primary, aborted, callbacks, loopExit, fetchesAfter>>

\* The promise of awaitMeasurement settles.
PrimarySettles(p) ==
    \E out \in PrimaryOutcomes :
        /\ pc[p] \in {"P317", "P346"}
        /\ primary.t = "none"
        /\ primary' = out
        /\ mq' = Append(mq, p)
        /\ UNCHANGED <<client, initializationPromise, initTask, waiters, op, pc, awaiting,
                       own, res, used, first, afterFail, handleAtReturn>>
        /\ UNCHANGED <<requestVars, pureVars>>
        /\ UNCHANGED <<hasOnProgress, aborted, iterations, callbacks, loopExit, fetchesAfter, awaitCalls>>

\* The continuation of line 317 (lines 318-339) or of line 346 (347-362):
\* pollMeasurement returns the data or throws the normalized error.  With
\* a progress loop it calls abortController.abort() first, on either path
\* (lines 324 and 335); the listener of a pending interval wait rejects the
\* wait (lines 300-303).
ResumePrimary(p) ==
    LET l == LoopOf(p) IN
    /\ mq # <<>> /\ Head(mq) = p
    /\ pc[p] \in {"P317", "P346"}
    /\ res' = [res EXCEPT ![p] = PollResult(primary)]
    /\ handleAtReturn' = [handleAtReturn EXCEPT ![p] = client]
    /\ IF pc[p] = "P317"
       THEN /\ aborted' = AbortsWhenSettled(primary)
            /\ IF AbortsWhenSettled(primary) /\ PcAfterAbort(pc[l]) # pc[l]
               THEN /\ pc' = [pc EXCEPT ![p] = "done", ![l] = PcAfterAbort(pc[l])]
                    /\ mq' = Append(Tail(mq), l)
               ELSE /\ pc' = [pc EXCEPT ![p] = "done"]
                    /\ mq' = Tail(mq)
       ELSE /\ pc' = [pc EXCEPT ![p] = "done"]
            /\ mq' = Tail(mq)
            /\ UNCHANGED aborted
    /\ UNCHANGED <<client, initializationPromise, initTask, waiters, op, awaiting, own,
                   used, first, afterFail>>
    /\ UNCHANGED <<requestVars, pureVars>>
    /\ UNCHANGED <<hasOnProgress, primary, iterations, callbacks, loopExit, fetchesAfter, awaitCalls>>

\* The continuation of line 282 (lines 283-311): getMeasurement threw (the
\* catch of line 305: break), or returned a snapshot: break if aborted,
\* else the callback (if it throws, the catch of line 305: break), then
\* break if the snapshot is no longer in progress, else the interval wait
\* of lines 298-304.  The getMeasurement call is
\* over: what was recorded of it (its result, and the locals and the
\* history of its executeWithRetry) is dropped.
ResumeLoop(l) ==
    /\ mq # <<>> /\ Head(mq) = l
    /\ pc[l] = "L282"
    /\ IF res[l].t = "err"
       THEN /\ LoopEnds(l, Tail(mq), "failed")
            /\ UNCHANGED callbacks
       ELSE IF CancelledBeforeCallback(aborted)
       THEN /\ LoopEnds(l, Tail(mq), "cancelledAfterFetch")
            /\ UNCHANGED callbacks
       ELSE \E st \in SnapshotStatuses, cb \in CallbackOutcomes :
                /\ callbacks' = callbacks + 1
                /\ IF cb = "throws"
                   THEN LoopEnds(l, Tail(mq), "callbackThrew")
                   ELSE IF st # "in-progress"
                   THEN LoopEnds(l, Tail(mq), "finished")
                   ELSE /\ pc' = [pc EXCEPT ![l] = "L298"]
                        /\ mq' = Tail(mq)
                        /\ UNCHANGED loopExit
    /\ res' = [res EXCEPT ![l] = NoRes]
    /\ attempt' = [attempt EXCEPT ![l] = 0]
    /\ lastError' = [lastError EXCEPT ![l] = NoRes]
    /\ ewr' = [ewr EXCEPT ![l] = NoRes]
    /\ outcomes' = [outcomes EXCEPT ![l] = <<>>]
    /\ delays' = [delays EXCEPT ![l] = <<>>]
    /\ UNCHANGED <<client, initializationPromise, initTask, waiters, op, awaiting, own,
                   used, first, afterFail, handleAtReturn>>
    /\ UNCHANGED <<isRateLimited, settled, pureVars>>
    /\ UNCHANGED <<hasOnProgress, primary, aborted, iterations, fetchesAfter, awaitCalls>>

\* The timer of the interval wait fires (the microtask queue is empty) and
\* the loop goes on at line 280: it ends if aborted, else it calls
\* getMeasurement again (line 282), which runs up to its first await.
IntervalTimerFires(l) ==
    /\ mq = <<>>
    /\ pc[l] = "L298"
    /\ iterations < MaxIterations
    /\ UNCHANGED <<op, afterFail>>
    /\ UNCHANGED <<hasOnProgress, primary, aborted, callbacks, fetchesAfter, awaitCalls>>
    /\ IF aborted
       THEN /\ LoopEnds(l, mq, "cancelledAtHead")
            /\ UNCHANGED <<client, initializationPromise, initTask, waiters, awaiting, own,
                           res, used, first, handleAtReturn>>
            /\ UNCHANGED <<requestVars, pureVars>>
            /\ UNCHANGED iterations
       ELSE /\ iterations' = iterations + 1
            /\ EnsureEnter(l, "loop", mq)
            /\ UNCHANGED <<requestVars, pureVars>>
            /\ UNCHANGED loopExit

\* The continuation of a rejected interval wait (the catch of lines
\* 305-311): break.
ResumeCancelled(l) ==
    /\ mq # <<>> /\ Head(mq) = l
    /\ pc[l] = "L305"
    /\ LoopEnds(l, Tail(mq), "cancelledInWait")
    /\ UNCHANGED <<client, initializationPromise, initTask, waiters, op, awaiting, own,
                   res, used, first, afterFail, handleAtReturn>>
    /\ UNCHANGED <<requestVars, pureVars>>
    /\ UNCHANGED <<hasOnProgress, primary, aborted, iterations, callbacks, fetchesAfter, awaitCalls>>

\* After construction (lines 54-65): the constructor has started
\* initializeClient and stored its promise; no handle yet.
Constructed ==
    /\ client = "absent"
    /\ initializationPromise = 1
    /\ initTask = [i \in InitIds |-> [status |-> IF i = 1 THEN "pending" ELSE "unused",
                                      err |-> ""]]
    /\ waiters = [i \in InitIds |-> <<>>]
    /\ mq = <<>>
    /\ op = [p \in Procs |-> "none"]
    /\ pc = [p \in Procs |-> "idle"]
    /\ awaiting = [p \in Procs |-> 0]
    /\ own = [p \in Procs |-> 0]
    /\ res = [p \in Procs |-> NoRes]
    /\ used = [p \in Procs |-> {}]
    /\ first = [p \in Procs |-> 0]
    /\ afterFail = [p \in Procs |-> FALSE]
    /\ handleAtReturn = [p \in Procs |-> "absent"]
    /\ isRateLimited = FALSE
    /\ attempt = [p \in Procs |-> 0]
    /\ settled = [p \in Procs |-> NoRes]
    /\ lastError = [p \in Procs |-> NoRes]
    /\ ewr = [p \in Procs |-> NoRes]
    /\ outcomes = [p \in Procs |-> <<>>]
    /\ delays = [p \in Procs |-> <<>>]
    /\ hasOnProgress = FALSE
    /\ primary = NoRes
    /\ aborted = FALSE
    /\ awaitCalls = 0
    /\ iterations = 0
    /\ callbacks = 0
    /\ loopExit = ""
    /\ fetchesAfter = 0

\* After construction: the RateLimitHandler's fields (testConfigBuilder.ts,
\* lines 78-79); nothing has been observed, asked or normalized.
Init ==
    /\ Constructed
    /\ nextResetTime = NoTime
    /\ now = 0
    /\ lastObs = NoObs
    /\ thrown = NoThrow
    /\ answer = "none"
    /\ lapsed = FALSE
    /\ raw = NoRes
    /\ norm = NoRes
    /\ norm2 = NoRes
    /\ retryAsked = NoCall
    /\ delayAsked = NoDelay

Next ==
    \/ \E p \in Procs : CallEnsure(p)
    \/ \E p \in Procs : CallReinitialize(p)
    \/ \E i \in InitIds : InitializeClientSettles(i)
    \/ \E p \in Procs : ResumeExistingAwait(p)
    \/ \E p \in Procs : ResumeOwnAwait(p)
    \/ \E p \in Procs : ResumeReinitialize(p)

Spec == Init /\ [][Next]_vars

\* Requests alone.
NextRetry ==
    \/ \E p \in Procs : CallRequest(p)
    \/ \E i \in InitIds : InitializeClientSettles(i)
    \/ \E p \in Procs : ResumeExistingAwait(p)
    \/ \E p \in Procs : ResumeOwnAwait(p)
    \/ \E p \in Procs : ResumeAfterEnsure(p)
    \/ \E p \in Procs : TransportSettles(p)
    \/ \E p \in Procs : ResumeTransport(p)
    \/ \E p \in Procs : TimerFires(p)

SpecRetry == Init /\ [][NextRetry]_vars

\* Requests, with reinitialize calls beside them.
NextRequest ==
    \/ \E p \in Procs : CallRequest(p)
    \/ \E p \in Procs : CallReinitialize(p)
    \/ \E i \in InitIds : InitializeClientSettles(i)
    \/ \E p \in Procs : ResumeExistingAwait(p)
    \/ \E p \in Procs : ResumeOwnAwait(p)
    \/ \E p \in Procs : ResumeReinitialize(p)
    \/ \E p \in Procs : ResumeAfterEnsure(p)
    \/ \E p \in Procs : TransportSettles(p)
    \/ \E p \in Procs : ResumeTransport(p)
    \/ \E p \in Procs : TimerFires(p)

SpecRequest == Init /\ [][NextRequest]_vars

\* normalizeError alone, called with any error.
InitNormalize ==
    /\ Constructed
    /\ nextResetTime = NoTime
    /\ now = 0
    /\ lastObs = NoObs
    /\ thrown = NoThrow
    /\ answer = "none"
    /\ lapsed = FALSE
    /\ raw \in RawErrors \cup {NoRes}
    /\ norm = NoRes
    /\ norm2 = NoRes
    /\ retryAsked = NoCall
    /\ delayAsked = NoDelay

NextNormalize ==
    \/ NormalizeCall
    \/ NormalizeAgainCall

SpecNormalize == InitNormalize /\ [][NextNormalize]_vars

\* The RateLimitHandler alone, called at any time with any response.
NextTracker ==
    \/ HandleResponseCall
    \/ IsCurrentlyRateLimitedCall
    \/ Tick

SpecTracker == Init /\ [][NextTracker]_vars

\* The retry schedule of the RateLimitHandler alone.
NextBackoff ==
    \/ ShouldRetryCall
    \/ GetBackoffDelayCall

SpecBackoff == Init /\ [][NextBackoff]_vars

\* One pollMeasurement call.
NextPoll ==
    \/ \E p \in Procs : CallPoll(p)
    \/ \E i \in InitIds : InitializeClientSettles(i)
    \/ \E p \in Procs : ResumeExistingAwait(p)
    \/ \E p \in Procs : ResumeOwnAwait(p)
    \/ \E p \in Procs : ResumePollAfterEnsure(p)
    \/ \E p \in Procs : PrimarySettles(p)
    \/ \E p \in Procs : ResumePrimary(p)
    \/ \E p \in Procs : ResumeAfterEnsure(p)
    \/ \E p \in Procs : TransportSettles(p)
    \/ \E p \in Procs : ResumeTransport(p)
    \/ \E p \in Procs : TimerFires(p)
    \/ \E p \in Procs : ResumeLoop(p)
    \/ \E p \in Procs : IntervalTimerFires(p)
    \/ \E p \in Procs : ResumeCancelled(p)

SpecPoll == Init /\ [][NextPoll]_vars

\* The steps the event loop takes by itself: the continuation at the head
\* of the microtask queue runs; a timer that is due fires once the queue is
\* empty.
MicrotaskStep ==
    \E p \in Procs :
        \/ ResumeExistingAwait(p) \/ ResumeOwnAwait(p) \/ ResumePollAfterEnsure(p)
        \/ ResumePrimary(p) \/ ResumeAfterEnsure(p) \/ ResumeTransport(p)
        \/ ResumeLoop(p) \/ ResumeCancelled(p)
TimerStep == \E p \in Procs : TimerFires(p) \/ IntervalTimerFires(p)
\* The promises a snapshot fetch waits for settle: the transport call, and
\* the getAuthToken call of an initializeClient run.
FetchSettles ==
    \/ \E p \in Procs : op[p] = "loop" /\ TransportSettles(p)
    \/ \E i \in InitIds : InitializeClientSettles(i)

\* One pollMeasurement call, where the event loop keeps running and every
\* snapshot fetch settles; the primary wait may stay pending for ever.
SpecPollLive ==
    /\ Init /\ [][NextPoll]_vars
    /\ WF_vars(MicrotaskStep)
    /\ WF_vars(TimerStep)
    /\ WF_vars(FetchSettles)

\* One pollMeasurement call, with reinitialize calls beside it.
NextPollReinit ==
    \/ \E p \in Procs : CallPoll(p)
    \/ \E i \in InitIds : InitializeClientSettles(i)
    \/ \E p \in Procs : ResumeExistingAwait(p)
    \/ \E p \in Procs : ResumeOwnAwait(p)
    \/ \E p \in Procs : ResumePollAfterEnsure(p)
    \/ \E p \in Procs : PrimarySettles(p)
    \/ \E p \in Procs : ResumePrimary(p)
    \/ \E p \in Procs : ResumeAfterEnsure(p)
    \/ \E p \in Procs : TransportSettles(p)
    \/ \E p \in Procs : ResumeTransport(p)
    \/ \E p \in Procs : TimerFires(p)
    \/ \E p \in Procs : ResumeLoop(p)
    \/ \E p \in Procs : IntervalTimerFires(p)
    \/ \E p \in Procs : ResumeCancelled(p)
    \/ \E p \in Procs : CallReinitialize(p)
    \/ \E p \in Procs : ResumeReinitialize(p)

SpecPollReinit == Init /\ [][NextPollReinit]_vars

----------------------------------------------------------------------------
(* Claims about the Client Lifecycle Manager *)

Done(p) == pc[p] = "done"
InFlight == {i \in InitIds : Pending(i)}

\* C1: callers that invoke ensureInitialized concurrently while no handle
\* exists (they begin by awaiting the same initializeClient run) are served
\* by exactly one initializeClient run in total, and all observe the same
\* outcome.
C1_SingleFlight ==
    \A p, q \in Procs :
        ( /\ p # q /\ op[p] = "ensure" /\ op[q] = "ensure"
          /\ first[p] # 0 /\ first[p] = first[q]
          /\ Done(p) /\ Done(q) )
        => /\ res[p].t = res[q].t
           /\ used[p] \cup used[q] = {first[p]}

\* C2: in every reachable state at most one initializeClient run is in flight.
C2_AtMostOneInFlight == Cardinality(InFlight) <= 1

\* C7: an ensureInitialized call made after an earlier one has failed never
\* fails without a fresh initializeClient run of its own having failed, and
\* when its own run succeeds the call returns with a usable handle.
C7_FailureNotCached ==
    \A p \in Procs :
        (op[p] = "ensure" /\ afterFail[p] /\ Done(p))
        => /\ res[p].t = "err" => (own[p] # 0 /\ initTask[own[p]].status = "rejected")
           /\ (own[p] # 0 /\ initTask[own[p]].status = "resolved")
                  => (res[p] = Ok /\ ClientUsable(handleAtReturn[p]))

\* C8: the published handle is absent or has passed validation in every
\* state; it is assigned only by an initializeClient run that resolves; a
\* run that fails leaves the handle absent; and reinitialize rethrows the
\* error of its run.
C8_Step ==
    /\ \A i \in InitIds :
          (Pending(i) /\ initTask'[i].status = "rejected")
          => (client' = "absent" /\ initTask'[i].err # "")
    /\ (client' # client /\ client' # "absent")
          => \E i \in InitIds : Pending(i) /\ initTask'[i].status = "resolved"
    /\ \A p \in Procs :
          (pc[p] = "R171" /\ pc'[p] = "done" /\ initTask[awaiting[p]].status = "rejected")
          => res'[p] = RawError(initTask[awaiting[p]].err)
C8_HandleValidOrAbsent ==
    /\ [](client = "absent" \/ HasCreateMeasurement(client))
    /\ [][C8_Step]_vars
\* A reinitialize whose run failed validation after a handle had been
\* published: the handle is cleared and the caller holds the run's error.
C8_Witness ==
    \E p \in Procs, j \in InitIds :
        /\ op[p] = "reinit" /\ Done(p) /\ res[p] = RawError("missingCreate")
        /\ initTask[j].status = "resolved"
        /\ client = "absent"

----------------------------------------------------------------------------
(* Claims about the Request Executor *)

Requests == {p \in Procs : op[p] \in RequestOps}
Thrown(e) == e.t = "err"
Thrown429(e) == Thrown(e) /\ e.status = 429
Thrown5xx(e) == Thrown(e) /\ e.status >= 500 /\ e.status <= 599
ThrownNetwork(e) == Thrown(e) /\ IsNetworkError(e)
\* a 5xx or network-shaped failure that is not rate-limit-shaped
ServerOrNetworkFailure(e) == ~Thrown429(e) /\ (Thrown5xx(e) \/ ThrownNetwork(e))

\* C3: after every attempt a < 5 that fails with status 429
\* executeWithRetry waits getBackoffDelay(a) and invokes the operation
\* again; the RateLimit error is propagated only when attempt 5 fails with
\* 429; and a success is returned as it is.
C3_RateLimitRetry ==
    \A p \in Requests :
        /\ \A n \in 1..Len(outcomes[p]) :
              Thrown429(outcomes[p][n]) =>
                  IF n < MaxAttempts
                  THEN /\ n <= Len(delays[p])
                       /\ delays[p][n] = GetBackoffDelay(n - 1)
                       /\ ~Done(p)
                  ELSE ewr[p].cls = "RateLimitError"
        /\ ewr[p].t = "ok" => ewr[p] = outcomes[p][Len(outcomes[p])]

\* C9: a 5xx or network-shaped failure on attempt 0 is followed by one wait
\* of 2000 ms and a second invocation; a success of the second invocation
\* is returned, and a 5xx or network-shaped failure of it is thrown as it
\* is, with no further wait and no third invocation.
C9_OneShotRetry ==
    \A p \in Requests :
        (Len(outcomes[p]) >= 1 /\ ServerOrNetworkFailure(outcomes[p][1]))
        => /\ Len(delays[p]) >= 1 /\ delays[p][1] = 2000
           /\ Len(outcomes[p]) = 1 => pc[p] \in {"sleep", "T495"}
           /\ Len(outcomes[p]) >= 2 =>
                 LET second == outcomes[p][2] IN
                 (second.t = "ok" \/ ServerOrNetworkFailure(second))
                 => /\ Done(p) /\ ewr[p] = second
                    /\ Len(outcomes[p]) = 2 /\ delays[p] = <<2000>>
\* Both attempts failed, the second with a network-shaped failure.
C9_Witness ==
    \E p \in Requests :
        /\ Done(p) /\ Len(outcomes[p]) = 2
        /\ Thrown5xx(outcomes[p][1])
        /\ ThrownNetwork(outcomes[p][2]) /\ ServerOrNetworkFailure(outcomes[p][2])
        /\ ewr[p] = outcomes[p][2] /\ ewr[p].id = 2

\* C10: a failure that is neither rate-limit-shaped nor a 5xx or
\* network-shaped failure of attempt 0 is thrown at once: it is the last
\* invocation, no wait follows it, and executeWithRetry throws that error.
C10_FailFast ==
    \A p \in Requests :
        \A n \in 1..Len(outcomes[p]) :
            LET e == outcomes[p][n] IN
            (Thrown(e) /\ ~Thrown429(e) /\ ~(n = 1 /\ ServerOrNetworkFailure(e)))
            => /\ n = Len(outcomes[p])
               /\ Len(delays[p]) = n - 1
               /\ Done(p) /\ ewr[p] = e
               /\ res[p] = NormalizeError(e)
\* A timeout on attempt 0, thrown after the one invocation.
C10_Witness ==
    \E p \in Requests :
        /\ Done(p) /\ Len(outcomes[p]) = 1 /\ delays[p] = <<>>
        /\ outcomes[p][1].code = "ETIMEDOUT"
        /\ res[p].cls = "TimeoutError"

\* C6: reinitialize does not fail a request in flight: when a request
\* found a valid handle at its call and every reinitialize was called after
\* it, every invocation of the request's operation reaches the transport,
\* so that the request ends as the transport's answers determine.
C6_ReinitKeepsInFlight ==
    \A p \in Requests :
        (used[p] = {} /\ \A q \in Procs : op[q] = "reinit" => q > p)
        => \A n \in 1..Len(outcomes[p]) :
               outcomes[p][n] \in TransportOutcomes(n)

----------------------------------------------------------------------------
(* Claims about the Polling Engine *)

Loops == {l \in Procs : op[l] = "loop"}

\* C4: once pollMeasurement has gone on after its await of the primary
\* wait, the progress loop issues at most one further snapshot fetch to the
\* transport.
C4_RaceBound == fetchesAfter <= 1

\* C5: no step invokes the progress callback once pollMeasurement has gone
\* on after its await of the primary wait: neither in a state where it has
\* returned nor in the step in which it returns.
C5_Step == callbacks' # callbacks => (~PrimaryReturned /\ ~PrimaryReturned')
C5_NoCallbackAfterReturn == [][C5_Step]_vars
\* The callback had been invoked, the primary wait returned while a
\* snapshot fetch was in flight, and the loop dropped that snapshot at
\* line 285.
C5_Witness ==
    \E l \in Loops :
        /\ PrimaryReturned /\ callbacks >= 1
        /\ Done(l) /\ loopExit = "cancelledAfterFetch"
        /\ iterations > callbacks

----------------------------------------------------------------------------
(* Claims about the Error Normalizer *)

\* normalizeError has been called with a transport error that carries a
\* response status.
Normalized == norm # NoRes
TransportErrorWithStatus == raw.t = "err" /\ raw.cls \in {"Error", "ApiError"} /\ raw.status # 0

\* C15: a transport error whose status is 401 or 403 is normalized to an
\* Authentication error, whatever its message.
C15_AuthWhateverMessage ==
    (Normalized /\ TransportErrorWithStatus /\ raw.status \in {401, 403})
    => KindOf(norm) = "Authentication"

\* The kind the table of the specification gives to a status.
TableKind(status) ==
    CASE status = 400 -> "Validation"
      [] status \in {401, 403} -> "Authentication"
      [] status = 429 -> "RateLimit"
      [] status = 404 -> "NotFound"
      [] status \in {500, 502, 503} -> "Server"
      [] OTHER -> "Generic"

\* C16: a transport error with a status (and a message that does not
\* trigger the "not initialized" rule) is normalized to the kind the table
\* gives to its status: 404 to NotFound with the message "Resource not
\* found", 500, 502 and 503 to Server with the status, the others with the
\* error's message; ApiErrors and other errors alike.
C16_StatusTable ==
    (Normalized /\ TransportErrorWithStatus /\ ~MessageIncludesUndefinedRead(raw.msg))
    => /\ KindOf(norm) = TableKind(raw.status)
       /\ norm.msg = (IF raw.status = 404 THEN "Resource not found" ELSE raw.msg)
       /\ KindOf(norm) = "Server" => norm.status = raw.status

\* C17: a RateLimitError is normalized to itself: the same message, and
\* the same retryAfter, limit, remaining and reset.
C17_RateLimitUnchanged ==
    (Normalized /\ raw.cls = "RateLimitError") => norm = raw
\* A RateLimitError with metadata, whose message would trigger the "not
\* initialized" rule, came back as it was.
C17_Witness ==
    /\ Normalized /\ raw.cls = "RateLimitError"
    /\ raw.meta = Meta(5, 100, 0, 2000) /\ MessageIncludesUndefinedRead(raw.msg)
    /\ norm.meta = raw.meta /\ norm.msg = raw.msg

----------------------------------------------------------------------------
(* Claims about the Rate Limit Tracker *)

\* The last handleResponse call was made with a 429 / with another status.
Observed429 == lastObs.response.status = 429
ObservedOther == lastObs.response.status \in ObservedStatuses \ {429}
\* The last handleResponse call was made with a 429 whose reset header
\* named a time later than the clock of the call.
Armed ==
    /\ Observed429
    /\ lastObs.response.headers.reset # Absent
    /\ ResetTimeOf(lastObs.response.headers.reset) > lastObs.at

\* C18: handleResponse on a 429 sets isRateLimited and throws a
\* RateLimitError whose retryAfter, limit, remaining and reset are the
\* values of the headers that are present, and undefined for the headers
\* that are missing.
C18_ObserveRateLimit ==
    Observed429 =>
        LET h == lastObs.response.headers IN
        /\ lastObs.after.limited
        /\ thrown.threw
        /\ thrown.meta = Meta(h.retryAfter, h.limit, h.remaining,
                              IF h.reset = Absent THEN Absent ELSE ResetTimeOf(h.reset))

\* C19: after a 429 whose reset time was in the future, and until the
\* next handleResponse call, isCurrentlyRateLimited returns true and leaves
\* the fields alone while now <= the reset time; the first call after it
\* returns false and clears isRateLimited and nextResetTime; the calls
\* after that return false.
C19_Step ==
    (IsCurrentlyRateLimitedCall /\ Armed) =>
        LET resetAt == ResetTimeOf(lastObs.response.headers.reset) IN
        IF lapsed
        THEN answer' = "false" /\ ~isRateLimited' /\ nextResetTime' = NoTime
        ELSE IF now <= resetAt
        THEN answer' = "true" /\ isRateLimited' /\ nextResetTime' = resetAt /\ ~lapsed'
        ELSE answer' = "false" /\ ~isRateLimited' /\ nextResetTime' = NoTime /\ lapsed'
C19_LimitedUntilReset == [][C19_Step]_vars
\* The limit has been cleared by a call made after the reset time, and a
\* call has answered false.
C19_Witness ==
    /\ Armed /\ lapsed /\ answer = "false"
    /\ now > ResetTimeOf(lastObs.response.headers.reset)
    /\ ~isRateLimited /\ nextResetTime = NoTime

\* C20: handleResponse on a response that is not a 429 returns; it sets
\* isRateLimited to (remaining = 0) when the remaining header is present
\* and leaves it alone when the header is missing; it leaves
\* nextResetTime alone.
C20_ObserveOther ==
    ObservedOther =>
        LET h == lastObs.response.headers IN
        /\ ~thrown.threw
        /\ lastObs.after.limited =
              (IF h.remaining # Absent THEN h.remaining = 0 ELSE lastObs.before.limited)
        /\ lastObs.after.nextResetTime = lastObs.before.nextResetTime
\* A response without a remaining header, seen while limited with a reset
\* time: both fields stay.
C20_Witness ==
    /\ ObservedOther
    /\ lastObs.response.headers.remaining = Absent
    /\ lastObs.before.limited /\ lastObs.before.nextResetTime # NoTime
    /\ isRateLimited /\ nextResetTime = lastObs.before.nextResetTime

----------------------------------------------------------------------------
(* Claims about the bound and the result of executeWithRetry *)

\* C11: executeWithRetry invokes the operation at most 6 times, and when
\* it has ended it has returned the result of its last invocation (the
\* first that succeeded) or has thrown the error that its last invocation
\* failed with.
C11_BoundedAndLastError ==
    \A p \in Requests :
        /\ Len(outcomes[p]) <= MaxAttempts
        /\ ewr[p].t # "none" =>
              /\ Len(outcomes[p]) >= 1
              /\ ewr[p] = outcomes[p][Len(outcomes[p])]
              /\ \A n \in 1..(Len(outcomes[p]) - 1) : Thrown(outcomes[p][n])

----------------------------------------------------------------------------
(* Claims about what pollMeasurement and the public methods settle with *)

Polls == {p \in Procs : op[p] = "poll"}
\* What the primary wait's outcome r is normalized from.
PrimaryError(r) == IF r.t = "notok" THEN ApiError(r) ELSE r
\* The progress loop has ended in its catch block (line 305), for a
\* snapshot fetch that failed or a callback that threw.
LoopFailed == loopExit \in {"failed", "callbackThrew"}

\* C12: when pollMeasurement returns a measurement, it is the one that the
\* primary wait delivered, as delivered, and never a snapshot of the
\* progress loop.
C12_PrimaryIsReturned ==
    \A p \in Polls :
        (Done(p) /\ res[p].t = "ok") => (primary.t = "ok" /\ res[p] = primary)
\* The progress loop saw a snapshot that was no longer in progress, gave it
\* to the callback and ended; the primary wait then delivered.
C12_Witness ==
    \E p \in Polls :
        /\ hasOnProgress /\ loopExit = "finished" /\ callbacks >= 1
        /\ Done(p) /\ res[p].t = "ok" /\ res[p].id = 0

\* C13: once the progress loop has ended on a failed snapshot fetch or a
\* throwing callback it is over for good (no further fetch, no further
\* callback), and pollMeasurement goes on waiting for the primary wait and
\* settles with its result, or with the normalization of its error.
C13_Step ==
    LoopFailed => /\ loopExit' = loopExit
                  /\ iterations' = iterations
                  /\ callbacks' = callbacks
                  /\ fetchesAfter' = fetchesAfter
C13_LoopFailureContained ==
    /\ [](LoopFailed =>
            /\ \A l \in Loops : Done(l)
            /\ \A p \in Polls :
                  IF Done(p)
                  THEN \/ primary.t = "ok" /\ res[p] = primary
                       \/ /\ primary.t \in {"notok", "err"}
                          /\ res[p] = NormalizeError(PrimaryError(primary))
                  ELSE pc[p] = "P317" /\ res[p].t # "err")
    /\ [][C13_Step]_vars
\* The first snapshot fetch failed, and pollMeasurement returned the
\* measurement of the primary wait.
C13_Witness ==
    \E p \in Polls :
        /\ loopExit = "failed" /\ iterations = 1 /\ callbacks = 0
        /\ Done(p) /\ res[p] = primary /\ primary.t = "ok"

\* C14: whatever createMeasurement, getMeasurement, getProbes (also the
\* getMeasurement calls of the progress loop) and pollMeasurement throw is
\* an error of the taxonomy, of one kind, and never a transport error as
\* raised; what pollMeasurement throws once the primary wait has settled is
\* the normalization of the error it raised, or of its response that was
\* not ok.
C14_NormalizedFailures ==
    \A p \in Procs :
        (op[p] \in RequestOps \cup {"loop", "poll"} /\ res[p].t = "err")
        => /\ KindOf(res[p]) # "raw"
           /\ res[p].cls \notin {"Error", "ApiError"}
           /\ (op[p] = "poll" /\ primary.t # "none")
                 => /\ primary.t \in {"notok", "err"}
                    /\ res[p] = NormalizeError(PrimaryError(primary))
\* The primary wait delivered a response that was not ok (status 500) and
\* pollMeasurement threw a ServerError.
C14_Witness ==
    \E p \in Polls :
        /\ Done(p) /\ primary.t = "notok" /\ res[p].t = "err"
        /\ res[p].cls = "ServerError" /\ KindOf(res[p]) = "Server"

----------------------------------------------------------------------------
(* Claims about the retry schedule *)

\* The delays the schedule has for the attempts 0..4, in milliseconds.
ScheduledDelays == <<1000, 2000, 4000, 8000, 16000>>

\* C21: getBackoffDelay(a) is 1000 * 2^a for every attempt a of 0..4
\* (1000, 2000, 4000, 8000, 16000), and shouldRetry(a) is true for every a
\* of 0..4 and false for a = 5.
C21_RetrySchedule ==
    /\ delayAsked.attempt \in 0..4 =>
          delayAsked.returned = ScheduledDelays[delayAsked.attempt + 1]
    /\ retryAsked.attempt \in 0..4 => retryAsked.returned = TRUE
    /\ retryAsked.attempt = 5 => retryAsked.returned = FALSE
\* getBackoffDelay(4) has returned 16000 and shouldRetry(5) has returned false.
C21_Witness ==
    /\ delayAsked = [attempt |-> 4, returned |-> 16000]
    /\ retryAsked = [attempt |-> 5, returned |-> FALSE]

----------------------------------------------------------------------------
(* Claims about the two strategies of pollMeasurement *)

\* C22: a pollMeasurement call without a progress callback never starts the
\* progress loop (no getMeasurement call, no transport call and no callback
\* is made for it) and calls awaitMeasurement exactly once; with a progress
\* callback it calls awaitMeasurement exactly once as well.
C22_OneWaitNoLoopWithoutCallback ==
    /\ awaitCalls <= 1
    /\ \A p \in Polls :
          (pc[p] \in {"P317", "P346"} \/ (Done(p) /\ primary.t # "none"))
          => awaitCalls = 1
    /\ \A p \in Polls :
          Done(p) /\ res[p].t = "ok" => awaitCalls = 1
    /\ ~hasOnProgress =>
          /\ iterations = 0 /\ callbacks = 0 /\ loopExit = "" /\ fetchesAfter = 0
          /\ \A l \in Loops :
                /\ pc[l] = "idle" /\ outcomes[l] = <<>>
                /\ settled[l] = NoRes /\ res[l] = NoRes
\* A pollMeasurement call without a progress callback has returned the
\* measurement of its one awaitMeasurement call.
C22_Witness ==
    \E p \in Polls :
        /\ ~hasOnProgress /\ Done(p) /\ res[p].t = "ok"
        /\ awaitCalls = 1 /\ iterations = 0

----------------------------------------------------------------------------
(* Claims about the cancellation of the progress loop *)

\* C23: however the primary wait settles, the cancellation signal is set
\* when pollMeasurement settles; and once the signal is set the progress
\* loop eventually ends, given that the event loop runs and every snapshot
\* fetch settles.
C23_CancelledThenStopped ==
    /\ [](\A p \in Polls :
            (hasOnProgress /\ Done(p) /\ primary.t # "none") => aborted)
    /\ [][aborted' /\ ~aborted => \E p \in Polls : ~Done(p) /\ Done(p)']_vars
    /\ (aborted ~> (\A l \in Loops : Done(l)))
\* The primary wait failed while the loop was in its interval wait; the
\* signal was set and the loop has ended in its catch block.
C23_Witness ==
    \E p \in Polls :
        /\ Done(p) /\ primary.t = "err" /\ res[p].t = "err"
        /\ aborted /\ loopExit = "cancelledInWait"
        /\ \A l \in Loops : Done(l)

\* C24: once the cancellation signal is set the progress loop makes no
\* further callback and begins no further iteration; the step that sets the
\* signal wakes a loop suspended in its interval wait, which then ends in
\* its catch block; and no loop waits for an interval to elapse after the
\* signal.  (The callback is a synchronous call inside one step of the
\* loop: the signal cannot be set while it runs.)
C24_Step ==
    /\ aborted => (callbacks' = callbacks /\ iterations' = iterations)
    /\ (~aborted /\ aborted') =>
          \A l \in Loops :
              pc[l] = "L298" => /\ pc'[l] = "L305"
                                /\ mq' # <<>> /\ mq'[Len(mq')] = l
    /\ \A l \in Loops :
          (pc[l] = "L305" /\ pc'[l] # "L305")
          => (pc'[l] = "done" /\ loopExit' = "cancelledInWait")
C24_CancellationDiscipline ==
    /\ [](aborted => \A l \in Loops : pc[l] # "L298")
    /\ [][C24_Step]_vars
\* The primary wait delivered while the loop was in its first interval
\* wait, after one callback; the loop was woken and has ended.
C24_Witness ==
    \E p \in Polls :
        /\ Done(p) /\ primary.t = "ok" /\ aborted
        /\ loopExit = "cancelledInWait" /\ callbacks = 1 /\ iterations = 1

\* C25: at the first snapshot that is no longer in progress the loop
\* invokes the callback with it and ends: from then on no snapshot fetch and
\* no callback is made, whether the primary wait has settled or not; and a
\* further iteration begins only from the interval wait that follows a
\* callback, when its timer fires.
C25_Step ==
    /\ loopExit = "finished" =>
          /\ loopExit' = loopExit
          /\ callbacks' = callbacks /\ iterations' = iterations
          /\ fetchesAfter' = fetchesAfter
          /\ \A l \in Loops : pc'[l] = "done"
    /\ (loopExit # "finished" /\ loopExit' = "finished") =>
          /\ callbacks' = callbacks + 1
          /\ \A l \in Loops : pc[l] = "L282" /\ pc'[l] = "done"
    /\ (iterations' # iterations /\ iterations >= 1) =>
          /\ iterations' = iterations + 1
          /\ callbacks = iterations
          /\ mq = <<>> /\ ~aborted
          /\ \A l \in Loops : pc[l] = "L298"
C25_StopsAtFinishedSnapshot ==
    /\ [](loopExit = "finished" => \A l \in Loops : Done(l))
    /\ [][C25_Step]_vars
\* The second snapshot was no longer in progress: the loop has ended after
\* two callbacks while the primary wait is still pending.
C25_Witness ==
    \E p \in Polls :
        /\ pc[p] = "P317" /\ primary.t = "none" /\ ~aborted
        /\ loopExit = "finished" /\ callbacks = 2 /\ iterations = 2
        /\ \A l \in Loops : Done(l)

----------------------------------------------------------------------------
(* Claims about responses that the transport returns *)

\* The invocation of the operation that ended last returned a response.
Returned(o) == o.t \in {"ok", "notok"}

\* C26: when an invocation of the operation returns a response, ok or not,
\* executeWithRetry returns it at once: it is the last invocation (the only
\* one when it is the first), no wait follows it, the Rate Limit Tracker is
\* not called for it, and a response that is not ok, a 429 or a 5xx
\* included, becomes the normalized ApiError that the method throws.
C26_Step ==
    \A p \in Requests :
        ( /\ Len(outcomes'[p]) = Len(outcomes[p]) + 1
          /\ Returned(outcomes'[p][Len(outcomes'[p])]) )
        => isRateLimited' = isRateLimited
C26_ReturnedResponseNotRetried ==
    /\ [](\A p \in Requests :
            \A n \in 1..Len(outcomes[p]) :
                LET o == outcomes[p][n] IN
                Returned(o) =>
                    /\ n = Len(outcomes[p])
                    /\ Len(delays[p]) = n - 1
                    /\ Done(p) /\ ewr[p] = o
                    /\ res[p] = IF o.t = "ok" THEN o ELSE NormalizeError(ApiError(o)))
    /\ [][C26_Step]_vars
\* The first invocation returned a response with status 500: the method
\* has thrown a ServerError after that one invocation, without a wait.
C26_Witness ==
    \E p \in Requests :
        /\ Done(p) /\ Len(outcomes[p]) = 1 /\ delays[p] = <<>>
        /\ outcomes[p][1].t = "notok" /\ outcomes[p][1].status = 500
        /\ res[p].cls = "ServerError"

\* C27: when createMeasurement, getMeasurement or getProbes has failed with
\* a RateLimit error, the Rate Limit Tracker holds that it is limited.
C27_RateLimitFailureRecorded ==
    \A p \in Requests :
        (Done(p) /\ res[p].t = "err" /\ KindOf(res[p]) = "RateLimit") => isRateLimited

----------------------------------------------------------------------------
(* Claims about the handle once it is published *)

\* C28: when no reinitialize is called, a handle that an ensureInitialized
\* call has returned with stays present: once some call has returned
\* successfully, the handle is present in every later state.
C28_PublishedHandleStays ==
    ( /\ \A q \in Procs : op[q] # "reinit"
      /\ \E p \in Procs : op[p] = "ensure" /\ Done(p) /\ res[p] = Ok )
    => client # "absent"

----------------------------------------------------------------------------
(* Claims about normalizing twice *)

\* C29: normalizeError applied to an error that normalizeError returned
\* gives an error of the same kind.
C29_KindIdempotent ==
    norm2 # NoRes => KindOf(norm2) = KindOf(norm)

----------------------------------------------------------------------------
(* Claims about a limit without a reset time *)

\* C30: while the tracker is limited and stores no reset time, neither the
\* passage of time nor a call of isCurrentlyRateLimited clears it: such a
\* call returns true and changes nothing.  Only a handleResponse call ends
\* that state: one for a response other than a 429 whose remaining count is
\* above 0 clears the limit, and one for a 429 with a reset header stores a
\* reset time.
C30_Step ==
    (isRateLimited /\ nextResetTime = NoTime) =>
        /\ answer' # "false"
        /\ ~lapsed'
        /\ answer' = "true" => (isRateLimited' /\ nextResetTime' = NoTime)
        /\ now' # now => (isRateLimited' /\ nextResetTime' = NoTime)
        /\ ~isRateLimited' =>
              /\ lastObs'.at = now
              /\ lastObs'.before = Fields(TRUE, NoTime)
              /\ lastObs'.response.status # 429
              /\ lastObs'.response.headers.remaining > 0
        /\ nextResetTime' # NoTime =>
              /\ isRateLimited'
              /\ lastObs'.at = now
              /\ lastObs'.response.status = 429
              /\ lastObs'.response.headers.reset # Absent
C30_NoResetNeverLapses == [][C30_Step]_vars
\* A 429 without a reset header was observed at time 0; the clock has
\* advanced twice since, and isCurrentlyRateLimited has just returned true.
C30_Witness ==
    /\ isRateLimited /\ nextResetTime = NoTime
    /\ lastObs.response.status = 429 /\ lastObs.response.headers.reset = Absent
    /\ lastObs.at = 0 /\ now >= 2 * TickMs
    /\ answer = "true"

====
